---- MODULE Spec2Model ----
(***************************************************************************)
(* Model of aspnet_to_swagger.py: AspNetToSwagger.run and the functions it *)
(* calls.  Text is a sequence of one-character strings, so that the        *)
(* regular expressions and the str methods of the source are computed      *)
(* character by character.                                                 *)
(***************************************************************************)
EXTENDS Integers, Sequences, FiniteSets, TLC

(***************************************************************************)
(* Characters and the str methods used by the source                       *)
(***************************************************************************)
UpperLetters == <<"A","B","C","D","E","F","G","H","I","J","K","L","M",
                  "N","O","P","Q","R","S","T","U","V","W","X","Y","Z">>

LowerLetters == <<"a","b","c","d","e","f","g","h","i","j","k","l","m",
                  "n","o","p","q","r","s","t","u","v","w","x","y","z">>

DigitChars == <<"0","1","2","3","4","5","6","7","8","9">>

Range(s) == {s[i] : i \in DOMAIN s}

\* F applied to the value of v, which is computed once
WithValue(v, F(_)) == CHOOSE r \in {F(x) : x \in {v}} : TRUE

\* str.lower() on one character
LowerChar(c) ==
    WithValue({i \in DOMAIN UpperLetters : UpperLetters[i] = c}, LAMBDA at :
        IF at = {} THEN c ELSE LowerLetters[CHOOSE i \in at : TRUE])

\* the sequence f as a tuple of its values
AsTuple(f) == f \o <<>>

\* str.lower()
Lower(s) == WithValue(s, LAMBDA v : AsTuple([i \in DOMAIN v |-> LowerChar(v[i])]))

\* the characters \s matches and str.strip() removes
Whitespace == {" ", "\t", "\n", "\r"}

\* the characters \w matches
WordChars == Range(UpperLetters) \cup Range(LowerLetters) \cup Range(DigitChars) \cup {"_"}

SetMin(S) == WithValue(S, LAMBDA T : CHOOSE x \in T : \A y \in T : x <= y)

SetMax(S) == WithValue(S, LAMBDA T : CHOOSE x \in T : \A y \in T : y <= x)

\* str.strip(chars): drop the leading and trailing characters that are in chars
StripChars(s, chars) ==
    WithValue(s, LAMBDA v :
        WithValue({i \in DOMAIN v : v[i] \notin chars}, LAMBDA keep :
            IF keep = {} THEN <<>> ELSE SubSeq(v, SetMin(keep), SetMax(keep))))

\* str.strip()
Strip(s) == StripChars(s, Whitespace)

\* str.rstrip(chars)
RStripChars(s, chars) ==
    WithValue(s, LAMBDA v :
        WithValue({i \in DOMAIN v : v[i] \notin chars}, LAMBDA keep :
            IF keep = {} THEN <<>> ELSE SubSeq(v, 1, SetMax(keep))))

\* s[i:] starts with t
StartsWithAt(s, i, t) ==
    /\ i + Len(t) - 1 <= Len(s)
    /\ \A k \in 1..Len(t) : s[i + k - 1] = t[k]

\* str.replace(old, new): left to right, occurrences that do not overlap
RECURSIVE ReplaceFrom(_, _, _, _)
ReplaceFrom(s, i, old, new) ==
    IF i > Len(s) THEN <<>>
    ELSE IF StartsWithAt(s, i, old)
         THEN new \o ReplaceFrom(s, i + Len(old), old, new)
         ELSE <<s[i]>> \o ReplaceFrom(s, i + 1, old, new)

Replace(s, old, new) == WithValue(s, LAMBDA v : ReplaceFrom(v, 1, old, new))

\* str(n) of a non-negative integer
RECURSIVE IntToStr(_)
IntToStr(n) ==
    IF n < 10 THEN <<DigitChars[n + 1]>>
    ELSE IntToStr(n \div 10) \o <<DigitChars[(n % 10) + 1]>>

\* index of the first c in s at or after i, 0 when there is none
FirstAt(s, i, c) ==
    WithValue({j \in i..Len(s) : s[j] = c}, LAMBDA hits :
        IF hits = {} THEN 0 ELSE SetMin(hits))

(***************************************************************************)
(* extract_path_and_method                                                 *)
(***************************************************************************)
\* the alternation (GET|POST|PUT|DELETE|PATCH) of the pattern
HttpVerbs == { <<"G","E","T">>, <<"P","O","S","T">>, <<"P","U","T">>,
               <<"D","E","L","E","T","E">>, <<"P","A","T","C","H">> }

\* the verbs the pattern can match at the start of api_name, re.IGNORECASE
VerbsAtStart(api_name) ==
    {v \in HttpVerbs : /\ Len(v) <= Len(api_name)
                       /\ Lower(SubSeq(api_name, 1, Len(v))) = Lower(v)}

\* $ without re.MULTILINE: the end of the string, or just before a final newline
AtDollar(s, pos) ==
    \/ pos = Len(s) + 1
    \/ pos = Len(s) /\ s[pos] = "\n"

\* the length of the run of whitespace that starts at position i of s
SpaceRun(s, i) ==
    WithValue({j \in i..Len(s) : s[j] \notin Whitespace}, LAMBDA stops :
        IF stops = {} THEN Len(s) + 1 - i ELSE SetMin(stops) - i)

\* PathMatches with \s* in the place of \s+: no whitespace needed after the verb
PathMatches_OptionalSpace(api_name) ==
    LET n  == Len(api_name)
        ks == {Len(v) : v \in VerbsAtStart(api_name)}
    IN  UNION { UNION { { <<k, w, m>> : m \in
                    { m \in 1..(n - k - w) :
                        /\ \A i \in (k + w + 1)..(k + w + m) : api_name[i] # "\n"
                        /\ \/ AtDollar(api_name, k + w + m + 1)
                           \/ /\ k + w + m + 1 <= n
                              /\ api_name[k + w + m + 1] = "?" } } :
                    w \in 0..SpaceRun(api_name, k + 1) } :
                k \in ks }

\* The ways ^(verb)\s+(.+?)(?:\?|$) can match: <<k, w, m>> is a verb of k
\* characters, w whitespace characters and a group 2 of m characters, none
\* of them a newline, followed by a "?" or by $.
PathMatches(api_name) ==
    LET n  == Len(api_name)
        ks == {Len(v) : v \in VerbsAtStart(api_name)}
    IN  UNION { UNION { { <<k, w, m>> : m \in
                    { m \in 1..(n - k - w) :
                        /\ \A i \in (k + w + 1)..(k + w + m) : api_name[i] # "\n"
                        /\ \/ AtDollar(api_name, k + w + m + 1)
                           \/ /\ k + w + m + 1 <= n
                              /\ api_name[k + w + m + 1] = "?" } } :
                    w \in 1..SpaceRun(api_name, k + 1) } :
                k \in ks }

\* The match re.match returns: \s+ is greedy (the longest run first) and
\* .+? is lazy (the shortest group first, tried before \s+ gives back).
PathMatch(ms) ==
    WithValue(SetMax({t[2] : t \in ms}), LAMBDA wmax :
        WithValue(SetMin({t[3] : t \in {u \in ms : u[2] = wmax}}), LAMBDA mmin :
            CHOOSE t \in ms : t[2] = wmax /\ t[3] = mmin))

\* re.findall(r'\{([^}]+)\}', s): the text of each {...}, left to right
RECURSIVE FindBraces(_, _)
FindBraces(s, i) ==
    IF i > Len(s) THEN <<>>
    ELSE WithValue(FirstAt(s, i + 1, "}"), LAMBDA close :
             IF s[i] = "{" /\ close > i + 1
             THEN <<SubSeq(s, i + 1, close - 1)>> \o FindBraces(s, close + 1)
             ELSE FindBraces(s, i + 1))

\* extract_path_and_method(api_name): the pair <<method, path>>
extract_path_and_method(api_name) ==
    WithValue(PathMatches(api_name), LAMBDA ms :
        IF ms # {}
        THEN WithValue(PathMatch(ms), LAMBDA t :
                 LET method   == Lower(SubSeq(api_name, 1, t[1]))
                     path_raw == Strip(SubSeq(api_name, t[1] + t[2] + 1,
                                              t[1] + t[2] + t[3]))
                     path     == <<"/">> \o StripChars(path_raw, {"/"})
                 IN  <<method, path>>)
        ELSE << <<"g","e","t">>, <<"/","u","n","k","n","o","w","n">> >>)

(***************************************************************************)
(* extract_parameters_from_name                                            *)
(***************************************************************************)
\* re.findall(r'/\{([^}]+)\}', s)
RECURSIVE FindPathParams(_, _)
FindPathParams(s, i) ==
    IF i > Len(s) THEN <<>>
    ELSE WithValue(FirstAt(s, i + 2, "}"), LAMBDA close :
             IF StartsWithAt(s, i, <<"/", "{">>) /\ close > i + 2
             THEN <<SubSeq(s, i + 2, close - 1)>> \o FindPathParams(s, close + 1)
             ELSE FindPathParams(s, i + 1))

\* end of the run of \w characters that starts at i (i - 1 when s[i] is none)
WordEnd(s, i) ==
    WithValue({j \in i..Len(s) : s[j] \notin WordChars}, LAMBDA stops :
        IF stops = {} THEN Len(s) ELSE SetMin(stops) - 1)

\* re.findall(r'(\w+)=\{([^}]+)\}', s): the pairs <<key, placeholder>>
RECURSIVE FindQueryParams(_, _)
FindQueryParams(s, i) ==
    IF i > Len(s) THEN <<>>
    ELSE WithValue(WordEnd(s, i), LAMBDA e :
         WithValue(FirstAt(s, e + 3, "}"), LAMBDA close :
             IF e >= i /\ StartsWithAt(s, e + 1, <<"=", "{">>) /\ close > e + 3
             THEN << <<SubSeq(s, i, e), SubSeq(s, e + 3, close - 1)>> >>
                      \o FindQueryParams(s, close + 1)
             ELSE FindQueryParams(s, i + 1)))

\* the loop of lines 173-182 over path_params[i..], seen_params being the
\* names of the parameters appended so far
RECURSIVE AddPathParams(_, _, _)
AddPathParams(path_params, i, parameters) ==
    IF i > Len(path_params) THEN parameters
    ELSE IF path_params[i] \in {parameters[j].name : j \in DOMAIN parameters}
         THEN AddPathParams(path_params, i + 1, parameters)
         ELSE AddPathParams(path_params, i + 1,
                  Append(parameters,
                         [name |-> path_params[i], in |-> "path", required |-> TRUE]))

\* AddQueryParams without the test of seen_params
RECURSIVE AddQueryParams_NoDedup(_, _, _)
AddQueryParams_NoDedup(param_matches, i, parameters) ==
    IF i > Len(param_matches) THEN parameters
    ELSE AddQueryParams_NoDedup(param_matches, i + 1,
             Append(parameters,
                    [name |-> param_matches[i][1], in |-> "query", required |-> FALSE]))

\* the loop of lines 189-198 over param_matches[i..]
RECURSIVE AddQueryParams(_, _, _)
AddQueryParams(param_matches, i, parameters) ==
    IF i > Len(param_matches) THEN parameters
    ELSE IF param_matches[i][1] \in {parameters[j].name : j \in DOMAIN parameters}
         THEN AddQueryParams(param_matches, i + 1, parameters)
         ELSE AddQueryParams(param_matches, i + 1,
                  Append(parameters,
                         [name |-> param_matches[i][1], in |-> "query", required |-> FALSE]))

\* extract_parameters_from_name(api_name): the list of parameters
extract_parameters_from_name(api_name) ==
    WithValue(FindPathParams(api_name, 1), LAMBDA path_params :
    WithValue(AddPathParams(path_params, 1, <<>>), LAMBDA with_path :
    WithValue(FirstAt(api_name, 1, "?"), LAMBDA q :
        IF q > 0
        THEN WithValue(SubSeq(api_name, q + 1, Len(api_name)), LAMBDA query_part :
             WithValue(FindQueryParams(query_part, 1), LAMBDA param_matches :
                 AddQueryParams(param_matches, 1, with_path)))
        ELSE with_path)))

(***************************************************************************)
(* Values of the program                                                   *)
(***************************************************************************)
\* Python's None (no text is a sequence of this one element)
NoneValue == <<"<None>">>

\* the literal of lines 77 and 259
NoDocumentation == <<"No documentation available.">>

\* what fetch_page returns when the request fails (line 43)
FetchFailed == [kind |-> "none", sections |-> <<>>]

\* `not html` of lines 92 and 305: None or the empty text
NotHtml(html) == html.kind \in {"none", "empty"}

\* an empty dict
EmptyDict == <<>>

\* d[k] = v on a dict
DictSet(d, k, v) == (k :> v) @@ d

(***************************************************************************)
(* parse_main_page                                                         *)
(***************************************************************************)
\* lines 71-79: the api_info of one table row
ParseRow(row) ==
    [ name        |-> Strip(row.a),
      description |-> IF row.td = NoneValue THEN NoDocumentation ELSE Strip(row.td),
      detail      |-> NoneValue ]

\* lines 52-79: one h2 section with its table
ParseSection(sec) ==
    [ name        |-> sec.id,
      description |-> IF sec.p = NoneValue THEN <<>> ELSE Strip(sec.p),
      apis        |-> AsTuple([j \in DOMAIN sec.rows |-> ParseRow(sec.rows[j])]) ]

HasApis(group) == group.apis # <<>>

\* parse_main_page(html): the groups in page order, those without rows left out
parse_main_page(html) ==
    SelectSeq([g \in DOMAIN html.sections |-> ParseSection(html.sections[g])], HasApis)

\* the pairs <<group index, api index>> in the order of the loops of lines
\* 232-234 and 317-319
RECURSIVE PositionsFrom(_, _)
PositionsFrom(groups, g) ==
    IF g > Len(groups) THEN <<>>
    ELSE [a \in 1..Len(groups[g].apis) |-> <<g, a>>] \o PositionsFrom(groups, g + 1)

Positions(groups) == PositionsFrom(groups, 1)

(***************************************************************************)
(* convert_to_swagger                                                      *)
(***************************************************************************)
\* line 213
ServerUrl(url) ==
    Replace(Replace(url, <<"/","H","e","l","p">>, <<>>), <<"/","h","e","l","p">>, <<>>)

\* the suffix of the f-string of lines 223 and 226 (Chinese for "related
\* interfaces"), kept as one piece
RelatedInterfaces == <<" related interfaces">>

\* lines 222-227
TagOf(group) ==
    [ name        |-> group.name,
      description |-> IF group.description # <<>> THEN group.description
                      ELSE group.name \o RelatedInterfaces ]

\* line 245
base_operation_id(method, path) ==
    method \o <<"_">> \o
    StripChars(Replace(Replace(Replace(path, <<"/">>, <<"_">>), <<"{">>, <<>>), <<"}">>, <<>>),
               {"_"})

\* CountOperationId with one counter shared by every base
CountOperationId_AdvancesOthers(counter, base) ==
    IF base \in DOMAIN counter
    THEN DictSet(counter, base, counter[base] + 1)
    ELSE DictSet([b \in DOMAIN counter |-> counter[b] + 1], base, 0)

\* lines 249-253: the counter after one more request for base
CountOperationId(counter, base) ==
    IF base \in DOMAIN counter
    THEN DictSet(counter, base, counter[base] + 1)
    ELSE DictSet(counter, base, 0)

\* lines 246-251: the operationId, counter being the counter after the request
OperationId(counter, base) ==
    IF counter[base] > 0 THEN base \o <<"_">> \o IntToStr(counter[base]) ELSE base

\* lines 256-295
Operation(group_name, api, method, parameters, operation_id) ==
    [ tags        |-> <<group_name>>,
      summary     |-> api.name,
      description |-> api.description,
      operationId |-> operation_id,
      parameters  |-> parameters,
      requestBody |-> method \in {<<"p","o","s","t">>, <<"p","u","t">>, <<"p","a","t","c","h">>},
      responses   |-> <<"200", "400", "500">> ]

\* StoreOperation that keeps the operation already stored under the key
StoreOperation_KeepFirst(paths, path, method, operation) ==
    IF path \in DOMAIN paths /\ method \in DOMAIN paths[path]
    THEN paths
    ELSE DictSet(paths, path,
                 DictSet(IF path \in DOMAIN paths THEN paths[path] ELSE EmptyDict,
                         method, operation))

\* lines 238-239 and 297: swagger['paths'][path][method] = operation
StoreOperation(paths, path, method, operation) ==
    DictSet(paths, path,
            DictSet(IF path \in DOMAIN paths THEN paths[path] ELSE EmptyDict,
                    method, operation))

(***************************************************************************)
(* Inputs: the arguments of the run and what the server holds              *)
(***************************************************************************)
\* how many pieces follow the verb in a link text
MaxChunks == 2

\* how many API rows a page with several rows has
MaxApis == 3

\* how many h2 sections such a page has
MaxGroups == 2

\* how many pieces a base URL is made of
MaxUrlChunks == 3

RECURSIVE Concat(_)
Concat(ss) == IF ss = <<>> THEN <<>> ELSE Head(ss) \o Concat(Tail(ss))

RECURSIVE Sum(_)
Sum(ns) == IF ns = <<>> THEN 0 ELSE Head(ns) + Sum(Tail(ns))

SeqsUpTo(S, n) == UNION {[1..k -> S] : k \in 0..n}

\* what a link text starts with
NamePrefixes == { <<>>, <<"G","E","T"," ">>, <<"p","u","t">> }

\* the pieces a link text is made of
NameChunks == { <<" ">>, <<"/">>, <<"?">>, <<"a">>, <<"{","a","}">>,
                <<"/","{","a","}">>, <<"/","{","b","}">>,
                <<"a","=","{","a","}">>, <<"b","=","{","a","}">>,
                <<"?","a","=","{","a","}">> }

\* the link texts of the pages with one row
LinkTexts == {p \o Concat(cs) : p \in NamePrefixes, cs \in SeqsUpTo(NameChunks, MaxChunks)}

\* link texts with each verb, in several cases, and with a line break
VerbTexts == { <<"g","e","t"," ","a">>, <<"P","o","s","t"," ","a">>, <<"P","U","T","\t","a">>,
               <<"D","E","L","E","T","E"," ","a">>, <<"p","a","t","C","H"," ","a">>,
               <<"D","e","l","e","t","e">>, <<"P","A","T","C","H","a">>,
               <<"P","O","S","T","\n","a">>, <<"P","O","S","T"," ","a","\n","b">>,
               <<"G","E","T"," ","a","\n">> }

\* the link texts of the pages with several rows
BuildTexts == { <<"G","E","T"," ","a","/","b">>,
                <<"g","e","t"," ","a","/","b","?","x">>,
                <<"G","E","T"," ","a","/","b","/","1">>,
                <<"P","O","S","T"," ","a","/","b">> }

DocText == <<"d","o","c">>

Row(a, td) == [a |-> a, td |-> td]

Section(id, p, rows) == [id |-> id, p |-> p, rows |-> rows]

HtmlPage(sections) == [kind |-> "html", sections |-> sections]

EmptyPage == [kind |-> "empty", sections |-> <<>>]

GroupId(g) == <<"G">> \o IntToStr(g)

\* rows[from..] cut into sections of the sizes sizes[g..]
RECURSIVE SplitRows(_, _, _, _)
SplitRows(rows, from, sizes, g) ==
    IF g > Len(sizes) THEN <<>>
    ELSE <<Section(GroupId(g), <<>>, SubSeq(rows, from, from + sizes[g] - 1))>>
             \o SplitRows(rows, from + sizes[g], sizes, g + 1)

\* the pages of at most MaxGroups sections that hold at most MaxApis rows
Pages(rowSet) ==
    { HtmlPage(SplitRows(pr[1], 1, pr[2], 1)) :
        pr \in { qr \in SeqsUpTo(rowSet, MaxApis) \X SeqsUpTo(0..MaxApis, MaxGroups) :
                    Sum(qr[2]) = Len(qr[1]) } }

OneRowPage(p, a, td) == HtmlPage(<<Section(GroupId(1), p, <<Row(a, td)>>)>>)

\* the base URL "h/Help", h being the host
DefaultUrl == <<"h","/","H","e","l","p">>

\* the pieces that follow the host in a base URL
UrlChunks == { <<"/">>, <<"/","x">>, <<"/","H","e","l","p">>, <<"/","h","e","l","p">>,
               <<"/","H","e">>, <<"l","p">> }

Input(url, details, page) == [url |-> url, fetch_details |-> details, page |-> page]

\* one row, every link text
NameInputs == {Input(DefaultUrl, FALSE, OneRowPage(<<"d">>, t, DocText)) : t \in LinkTexts}

\* one row, every verb
VerbInputs == {Input(DefaultUrl, FALSE, OneRowPage(<<"d">>, t, DocText)) : t \in VerbTexts}

\* one row, every shape of the two descriptions; and the empty page
DescInputs ==
    {Input(DefaultUrl, FALSE, OneRowPage(p, <<"G","E","T"," ","a">>, td)) :
        p \in {NoneValue, <<>>, <<"d">>}, td \in {NoneValue, <<>>, <<" ">>, DocText}}
    \cup {Input(DefaultUrl, d, EmptyPage) : d \in BOOLEAN}

\* several rows in several sections
BuildInputs == {Input(DefaultUrl, FALSE, pg) : pg \in Pages({Row(t, DocText) : t \in BuildTexts})}

\* several rows, with --fetch-details
DetailInputs ==
    {Input(DefaultUrl, TRUE, pg) : pg \in Pages({Row(<<"G","E","T"," ","a">>, DocText)})}

\* every base URL
UrlInputs ==
    {Input(<<"h">> \o Concat(cs), FALSE, OneRowPage(<<>>, <<"G","E","T"," ","a">>, DocText)) :
        cs \in SeqsUpTo(UrlChunks, MaxUrlChunks)}

(***************************************************************************)
(* run                                                                     *)
(***************************************************************************)
VARIABLES
    pc,                   \* where run is
    base_url,             \* self.base_url
    fetch_details,        \* the argument of run
    help_page,            \* what the server answers for base_url
    html,                 \* the local html of run
    api_groups,           \* the local api_groups of run
    i,                    \* the loop position, an index of Positions(api_groups)
    swagger,              \* the local swagger of convert_to_swagger
    operation_id_counter, \* the local operation_id_counter of convert_to_swagger
    output,               \* the documents written so far
    result,               \* what run returned
    processed,            \* history: one record per iteration of the loop of line 234
    detail_fetches        \* history: one record per iteration of the loop of line 319

vars == <<pc, base_url, fetch_details, help_page, html, api_groups, i, swagger,
          operation_id_counter, output, result, processed, detail_fetches>>

\* before main creates the converter
Init ==
    /\ pc = "main"
    /\ base_url = <<>>
    /\ fetch_details = FALSE
    /\ help_page = EmptyPage
    /\ html = FetchFailed
    /\ api_groups = <<>>
    /\ i = 1
    /\ swagger = [servers |-> <<>>, tags |-> <<>>, paths |-> EmptyDict]
    /\ operation_id_counter = EmptyDict
    /\ output = <<>>
    /\ result = "none"
    /\ processed = <<>>
    /\ detail_fetches = <<>>

\* lines 365-366 and 23: main creates the converter for the URL and calls
\* run; the help page is what the server holds at that URL
Main(inputs) ==
    /\ pc = "main"
    /\ \E in \in inputs :
        /\ base_url' = RStripChars(in.url, {"/"})
        /\ fetch_details' = in.fetch_details
        /\ help_page' = in.page
    /\ pc' = "fetch"
    /\ UNCHANGED <<html, api_groups, i, swagger, operation_id_counter, output, result,
                   processed, detail_fetches>>

\* where run goes after the loop of line 317, or instead of it
AfterDetails == "convert"

\* lines 304-307: fetch the main page, return False without it
FetchMainPage ==
    /\ pc = "fetch"
    /\ \E page \in {FetchFailed, help_page} :
        /\ html' = page
        /\ pc' = IF NotHtml(page) THEN "done" ELSE "parse"
        /\ result' = IF NotHtml(page) THEN "False" ELSE result
    /\ UNCHANGED <<base_url, fetch_details, help_page, api_groups, i, swagger,
                   operation_id_counter, output, processed, detail_fetches>>

\* lines 310-315
ParseMainPage ==
    /\ pc = "parse"
    /\ api_groups' = parse_main_page(html)
    /\ i' = 1
    /\ pc' = IF fetch_details /\ Positions(parse_main_page(html)) # <<>>
             THEN "details" ELSE AfterDetails
    /\ UNCHANGED <<base_url, fetch_details, help_page, html, swagger,
                   operation_id_counter, output, result, processed, detail_fetches>>

\* lines 91-93 and 144: parse_api_detail gives None without a page
parse_api_detail(page) == IF NotHtml(page) THEN NoneValue ELSE <<"detail">>

\* AfterDetail that gives up at the first detail page it cannot get
AfterDetail_AbortOnFailure(detail, k, n) ==
    IF detail = NoneValue THEN "done" ELSE IF k = n THEN AfterDetails ELSE "details"

\* where run goes after the detail of api k of n
AfterDetail(detail, k, n) == IF k = n THEN AfterDetails ELSE "details"

\* lines 319-323: one iteration of the detail loop
FetchDetail ==
    /\ pc = "details"
    /\ LET pos == Positions(api_groups)[i]
       IN  \E page \in {FetchFailed, EmptyPage, HtmlPage(<<>>)} :
            LET detail == parse_api_detail(page)
            IN  /\ api_groups' =
                      IF detail # NoneValue
                      THEN [api_groups EXCEPT ![pos[1]].apis[pos[2]].detail = detail]
                      ELSE api_groups
                /\ detail_fetches' = Append(detail_fetches, [pos |-> pos, page |-> page])
                /\ pc' = AfterDetail(detail, i, Len(Positions(api_groups)))
                /\ i' = IF i = Len(Positions(api_groups)) THEN 1 ELSE i + 1
    /\ UNCHANGED <<base_url, fetch_details, help_page, html, swagger,
                   operation_id_counter, output, result, processed>>

\* lines 204-230: the document before the loop over the APIs
ConvertStart ==
    /\ pc = "convert"
    /\ swagger' = [ servers |-> <<ServerUrl(base_url)>>,
                    tags    |-> AsTuple([g \in DOMAIN api_groups |-> TagOf(api_groups[g])]),
                    paths   |-> EmptyDict ]
    /\ operation_id_counter' = EmptyDict
    /\ i' = 1
    /\ pc' = IF Positions(api_groups) = <<>> THEN "output" ELSE "apis"
    /\ UNCHANGED <<base_url, fetch_details, help_page, html, api_groups, output, result,
                   processed, detail_fetches>>

\* lines 235-295 for one API of the group named group_name: what the
\* iteration computes, the counter after it included
BuildOperation(group_name, api, counter_before) ==
    CHOOSE built \in
        { [ group |-> group_name, api |-> api, method |-> mp[1], path |-> mp[2],
            counter |-> CountOperationId(counter_before, base),
            operation |-> Operation(group_name, api, mp[1], parameters,
                              OperationId(CountOperationId(counter_before, base), base)) ] :
            mp \in {extract_path_and_method(api.name)},
            parameters \in {extract_parameters_from_name(api.name)},
            base \in {base_operation_id(m[1], m[2]) :
                        m \in {extract_path_and_method(api.name)}} } : TRUE

\* lines 234-297: one iteration of the loop over the APIs
ProcessApi ==
    /\ pc = "apis"
    /\ \E pos \in {Positions(api_groups)[i]} :
        \E group \in {api_groups[pos[1]]} :
            \E api \in {group.apis[pos[2]]} :
                \E built \in {BuildOperation(group.name, api, operation_id_counter)} :
                    /\ operation_id_counter' = built.counter
                    /\ swagger' = [swagger EXCEPT
                                     !.paths = StoreOperation(@, built.path, built.method,
                                                              built.operation)]
                    /\ processed' = Append(processed, built)
    /\ pc' = IF i = Len(Positions(api_groups)) THEN "output" ELSE "apis"
    /\ i' = i + 1
    /\ UNCHANGED <<base_url, fetch_details, help_page, html, api_groups, output, result,
                   detail_fetches>>

\* lines 329-340: write the document, return True
Output ==
    /\ pc = "output"
    /\ output' = Append(output, swagger)
    /\ result' = "True"
    /\ pc' = "done"
    /\ UNCHANGED <<base_url, fetch_details, help_page, html, api_groups, i, swagger,
                   operation_id_counter, processed, detail_fetches>>

Next ==
    \/ Main(NameInputs)
    \/ Main(VerbInputs)
    \/ Main(DescInputs)
    \/ Main(BuildInputs)
    \/ Main(DetailInputs)
    \/ Main(UrlInputs)
    \/ FetchMainPage
    \/ ParseMainPage
    \/ FetchDetail
    \/ ConvertStart
    \/ ProcessApi
    \/ Output

Spec == Init /\ [][Next]_vars

(***************************************************************************)
(* Properties                                                              *)
(***************************************************************************)
GetMethod == <<"g","e","t">>

UnknownPath == <<"/","u","n","k","n","o","w","n">>

\* the API of the k-th iteration of the loops, as parse_main_page gave it
\* but for its detail
GroupAt(k) == api_groups[Positions(api_groups)[k][1]]

ApiAt(k) == GroupAt(k).apis[Positions(api_groups)[k][2]]

\* the verbs, lower case, that name starts with, whatever its case
LeadingVerbs(name) ==
    { v \in { <<"g","e","t">>, <<"p","o","s","t">>, <<"p","u","t">>,
              <<"d","e","l","e","t","e">>, <<"p","a","t","c","h">> } :
        /\ Len(v) <= Len(name)
        /\ \A j \in 1..Len(v) : LowerChar(name[j]) = v[j] }

\* name is a verb, whitespace, and something more than whitespace
HasVerbSpacePath(name) ==
    \E v \in LeadingVerbs(name) :
        /\ Len(name) > Len(v)
        /\ name[Len(v) + 1] \in Whitespace
        /\ \E j \in (Len(v) + 2)..Len(name) : name[j] \notin Whitespace

\* the text of name between the verb v and the first "?"
TextAfterVerb(name, v) ==
    LET marks == {j \in (Len(v) + 1)..Len(name) : name[j] = "?"}
    IN  SubSeq(name, Len(v) + 1, IF marks = {} THEN Len(name) ELSE SetMin(marks) - 1)

\* the elements of seq, each at its first occurrence only, in order
FirstSeen(seq) ==
    LET firsts == {j \in DOMAIN seq : \A h \in 1..(j - 1) : seq[h] # seq[j]}
    IN  [n \in 1..Cardinality(firsts) |->
            seq[CHOOSE j \in firsts : Cardinality({h \in firsts : h < j}) = n - 1]]

IsPath(p) == p.in = "path"

IsQuery(p) == p.in = "query"

NamesOf(ps) == [j \in DOMAIN ps |-> ps[j].name]

NotIn(S, seq) ==
    LET kept == {j \in DOMAIN seq : seq[j] \notin S}
    IN  [n \in 1..Cardinality(kept) |->
            seq[CHOOSE j \in kept : Cardinality({h \in kept : h < j}) = n - 1]]

\* the keys of the name={...} pairs after the first "?" of name
QueryKeys(name) ==
    LET q == {j \in DOMAIN name : name[j] = "?"}
    IN  IF q = {} THEN <<>>
        ELSE WithValue(FindQueryParams(SubSeq(name, SetMin(q) + 1, Len(name)), 1),
                       LAMBDA ms : [j \in DOMAIN ms |-> ms[j][1]])

\* C1: in one build no two entries get the same operationId.
C1_OperationIdsDistinct ==
    \A k1, k2 \in DOMAIN processed :
        k1 # k2 => processed[k1].operation.operationId # processed[k2].operation.operationId

\* C2: the first entry with a base identifier gets the base unchanged, the
\* k-th later entry with the same base gets base_k, whatever entries with
\* other bases come between; get /a/b gives get_a_b and then get_a_b_1.
C2_CollisionSuffix ==
    \A k \in DOMAIN processed :
        \A base \in {base_operation_id(processed[k].method, processed[k].path)} :
            \A earlier \in {Cardinality({j \in 1..(k - 1) :
                               base_operation_id(processed[j].method, processed[j].path)
                                   = base})} :
                /\ processed[k].operation.operationId =
                       IF earlier = 0 THEN base ELSE base \o <<"_">> \o IntToStr(earlier)
                /\ processed[k].method = GetMethod /\ processed[k].path = <<"/","a","/","b">>
                   => /\ earlier = 0 => processed[k].operation.operationId
                                           = <<"g","e","t","_","a","_","b">>
                      /\ earlier = 1 => processed[k].operation.operationId
                                           = <<"g","e","t","_","a","_","b","_","1">>

C2_Witness ==
    \E k1, k2, k3 \in DOMAIN processed :
        /\ k1 < k2 /\ k2 < k3
        /\ processed[k1].path = processed[k3].path
        /\ processed[k1].method = processed[k3].method
        /\ processed[k2].method # processed[k1].method
        /\ processed[k3].operation.operationId = <<"g","e","t","_","a","_","b","_","1">>

\* C3: a name that is a verb, whitespace and text gives the verb in lower
\* case and the path "/" + the text before the first "?", whitespace and
\* then slashes trimmed; the path starts with "/" and holds no "?".
C3_WellFormedName ==
    \A k \in DOMAIN processed :
        \A name \in {processed[k].api.name} :
            HasVerbSpacePath(name) =>
                \A v \in LeadingVerbs(name) :
                    /\ processed[k].method = v
                    /\ processed[k].path =
                           <<"/">> \o StripChars(Strip(TextAfterVerb(name, v)), {"/"})
                    /\ processed[k].path[1] = "/"
                    /\ "?" \notin Range(processed[k].path)

\* C4: a name that is not a verb, whitespace and a path gives get and
\* /unknown, and the build files it under paths["/unknown"]["get"].
C4_FallbackUnknown ==
    \A k \in DOMAIN processed :
        ~HasVerbSpacePath(processed[k].api.name) =>
            /\ processed[k].method = GetMethod
            /\ processed[k].path = UnknownPath
            /\ UnknownPath \in DOMAIN swagger.paths
            /\ GetMethod \in DOMAIN swagger.paths[UnknownPath]

C4_Witness ==
    \E k \in DOMAIN processed :
        /\ LeadingVerbs(processed[k].api.name) # {}
        /\ ~HasVerbSpacePath(processed[k].api.name)
        /\ Len(processed[k].api.name) > 3
        /\ swagger.paths[UnknownPath][GetMethod].summary = processed[k].api.name

\* C5: the parameters of a name have distinct names, the path ones (all
\* required) before the query ones (none required), each kind in the order
\* of first occurrence, and a name that is a /{name} and a query key is there
\* once, as a path parameter.
C5_Parameters ==
    \A k \in DOMAIN processed :
        \A ps \in {processed[k].operation.parameters} :
        \A path_names \in {FindPathParams(processed[k].api.name, 1)} :
        \A query_keys \in {QueryKeys(processed[k].api.name)} :
            /\ \A a, b \in DOMAIN ps : a # b => ps[a].name # ps[b].name
            /\ \A a, b \in DOMAIN ps : a < b => ~(IsQuery(ps[a]) /\ IsPath(ps[b]))
            /\ \A a \in DOMAIN ps : /\ ps[a].in \in {"path", "query"}
                                    /\ ps[a].required = IsPath(ps[a])
            /\ NamesOf(SelectSeq(ps, IsPath)) = FirstSeen(path_names)
            /\ NamesOf(SelectSeq(ps, IsQuery)) = NotIn(Range(path_names), FirstSeen(query_keys))
            /\ \A n \in Range(path_names) \cap Range(query_keys) :
                   /\ Cardinality({a \in DOMAIN ps : ps[a].name = n}) = 1
                   /\ \A a \in DOMAIN ps : ps[a].name = n => IsPath(ps[a])

C5_Witness ==
    \E k \in DOMAIN processed :
        \E n \in Range(FindPathParams(processed[k].api.name, 1)) :
            /\ n \in Range(QueryKeys(processed[k].api.name))
            /\ Len(processed[k].operation.parameters) = 1
            /\ processed[k].operation.parameters[1]
                   = [name |-> n, in |-> "path", required |-> TRUE]

\* C6: paths holds one operation for each (path, method) parsed from the
\* entries processed so far and no other, and it is the operation (tags,
\* summary, operationId) of the last of the entries that parsed to the pair.
C6_LastEntryWins ==
    /\ \A k \in DOMAIN processed :
           /\ processed[k].api = ApiAt(k)
           /\ processed[k].group = GroupAt(k).name
           /\ processed[k].path \in DOMAIN swagger.paths
           /\ processed[k].method \in DOMAIN swagger.paths[processed[k].path]
    /\ \A path \in DOMAIN swagger.paths :
           \A method \in DOMAIN swagger.paths[path] :
               \E k \in DOMAIN processed :
                   /\ processed[k].path = path /\ processed[k].method = method
                   /\ \A j \in (k + 1)..Len(processed) :
                          ~(processed[j].path = path /\ processed[j].method = method)
                   /\ swagger.paths[path][method].tags = <<GroupAt(k).name>>
                   /\ swagger.paths[path][method].summary = ApiAt(k).name
                   /\ swagger.paths[path][method].operationId
                          = processed[k].operation.operationId
                   /\ swagger.paths[path][method] = processed[k].operation
    /\ Cardinality({<<path, method>> \in
                       (DOMAIN swagger.paths) \X {processed[k].method : k \in DOMAIN processed} :
                           method \in DOMAIN swagger.paths[path]})
         = Cardinality({<<processed[k].path, processed[k].method>> : k \in DOMAIN processed})
    /\ pc = "done" /\ result = "True" => Len(processed) = Len(Positions(api_groups))

C6_Witness ==
    /\ pc = "done"
    /\ \E k1, k2, k3 \in DOMAIN processed :
        /\ k1 < k2 /\ k3 < k2
        /\ processed[k1].path = processed[k2].path
        /\ processed[k1].method = processed[k2].method
        /\ processed[k1].api.name # processed[k2].api.name
        /\ processed[k3].method # processed[k2].method
        /\ swagger.paths[processed[k2].path][processed[k2].method].summary
               = processed[k2].api.name
        /\ swagger.paths[processed[k3].path][processed[k3].method].summary
               = processed[k3].api.name

\* C7: the description of an operation is the description of its entry, or
\* the literal "No documentation available." when that is empty; it is never
\* empty.
C7_DescriptionFallback ==
    \A k \in DOMAIN processed :
        /\ processed[k].operation.description =
               IF processed[k].api.description = <<>> THEN NoDocumentation
               ELSE processed[k].api.description
        /\ processed[k].operation.description # <<>>

\* the url without its last segment when that is /Help or /help
TrailingHelpRemoved(url) ==
    IF /\ Len(url) >= 5
       /\ SubSeq(url, Len(url) - 4, Len(url))
              \in {<<"/","H","e","l","p">>, <<"/","h","e","l","p">>}
    THEN SubSeq(url, 1, Len(url) - 5)
    ELSE url

\* C8: the document has one servers entry, the base URL without a trailing
\* /Help or /help segment; any other /Help or /help in it is kept.
C8_ServerUrlTrailingHelp ==
    pc \in {"apis", "output"} \/ result = "True" =>
        swagger.servers = <<TrailingHelpRemoved(base_url)>>

\* the run has started the detail loop or is past it
PastParse == pc \in {"details", "convert", "apis", "output"} \/ result = "True"

\* C9: run returns False only when it got no main page, and then writes
\* nothing; a detail page it cannot get leaves the entry without detail and
\* the loop goes on with the next entry, the build runs over every entry,
\* the document is written and run returns True.
C9_DetailFailureDoesNotAbort ==
    /\ pc \in {"main", "fetch", "parse", "details", "convert", "apis", "output", "done"}
    /\ pc = "done" <=> result \in {"True", "False"}
    /\ result = "False" <=> pc = "done" /\ NotHtml(html)
    /\ result = "False" => output = <<>> /\ processed = <<>>
    /\ pc = "details" => ENABLED FetchDetail
    /\ pc = "details" => Len(detail_fetches) = i - 1
    /\ PastParse /\ pc # "details" /\ fetch_details
           => Len(detail_fetches) = Len(Positions(api_groups))
    /\ PastParse =>
           \A k \in DOMAIN detail_fetches :
               /\ detail_fetches[k].pos = Positions(api_groups)[k]
               /\ ApiAt(k).detail = NoneValue <=> NotHtml(detail_fetches[k].page)
    /\ result = "True" =>
           /\ output = <<swagger>>
           /\ Len(processed) = Len(Positions(api_groups))
           /\ \A k \in DOMAIN processed : processed[k].api = ApiAt(k)

C9_Witness ==
    /\ result = "True"
    /\ fetch_details
    /\ \E k1, k2 \in DOMAIN detail_fetches :
        /\ k1 < k2
        /\ NotHtml(detail_fetches[k1].page)
        /\ ~NotHtml(detail_fetches[k2].page)
        /\ ApiAt(k1).detail = NoneValue
        /\ ApiAt(k2).detail # NoneValue
        /\ processed[k2].api = ApiAt(k2)

\* C10: the names of the path parameters of an operation are the {name}
\* placeholders of the path it is stored under.
C10_PathParametersMatchPath ==
    \A k \in DOMAIN processed :
        {p.name : p \in {q \in Range(processed[k].operation.parameters) : IsPath(q)}}
            = Range(FindBraces(processed[k].path, 1))

====
